---- MODULE Spec2Model ----
(***************************************************************************)
(* A model of Tensor::Tensor<T> (src/Tensor.hpp), the dense rank-2 numeric *)
(* container, and of the demonstration program src/tests/test1.cpp.        *)
(*                                                                         *)
(* A client program owns named tensors (obj) and, while it evaluates an    *)
(* expression, one temporary (tmp): the value of the sub-expression        *)
(* evaluated last.  The full-expression ends when the temporary is         *)
(* assigned, compared or discarded; only then does the next statement run. *)
(*                                                                         *)
(* size_t is an unsigned integer of SizeBits bits: every size_t product    *)
(* and sum is reduced modulo 2^SizeBits.  T is an unsigned integer type    *)
(* with tmod values (arithmetic modulo tmod).  An access to data[] past    *)
(* the end of the buffer is undefined behaviour: the process either        *)
(* crashes or goes on, a read yielding an arbitrary value of T and a       *)
(* write landing outside every tensor.                                     *)
(***************************************************************************)
EXTENDS Integers, Sequences, FiniteSets, TLC

\* width of size_t in bits (scaled down)
SizeBits == 3
\* width of the element type T of the library client, in bits (scaled down)
TBits == 2
\* width of int, the element type of test1.cpp (the least the language allows)
IntBits == 16
\* largest dimension and index a client passes
MaxDim == 3
\* largest buffer (in elements) a client allocates
MaxLen == 4
\* deepest nesting of sub-expressions in one client expression
MaxDepth == 2
\* the literals of test1.cpp: A.fill(5), A * 3, B.fill(3), 10 * B
TestFillA == 5
TestScaleA == 3
TestFillB == 3
TestScaleB == 10

SizeMod == 2^SizeBits

VARIABLES
    tmod,     \* number of values of the element type T (a power of two)
    obj,      \* named tensors: name -> <<>> (not constructed) or <<tensor>>
    tmp,      \* the temporary of the expression under evaluation: <<>> or <<tensor>>
    depth,    \* nesting depth of the expression that produced tmp
    last,     \* the call made last: operation, arguments, outcome
    alive,    \* FALSE once the process has crashed or terminated
    pc,       \* "lib" for a library client, else the line of test1.cpp to run next
    lit,      \* the literals of test1.cpp
    out       \* what print() has written: a sequence of rows

vars == <<tmod, obj, tmp, depth, last, alive, pc, lit, out>>

----------------------------------------------------------------------------
\* Exceptions, named by type (and message where one type is thrown twice).
NoError == "none"
InvalidArgument == "invalid_argument"
OutOfRange == "out_of_range"
SizeMismatch == "runtime_error: Size mismatch"
DimensionIncompatible == "runtime_error: Matrix dimensions incompatible for multiplication"
Crash == "crash (undefined behaviour)"

\* Arithmetic of T.
TVals == 0 .. (tmod - 1)
TAdd(a, b) == (a + b) % tmod
TSub(a, b) == (a - b) % tmod
TMul(a, b) == (a * b) % tmod
\* static_cast<T>(value)
TCast(value) == value % tmod

\* Arithmetic of size_t.
SizeMul(a, b) == (a * b) % SizeMod
SizeAdd(a, b) == (a + b) % SizeMod

\* Tensor(size_t rows, size_t cols): the members are initialised first
\* (data with rows * cols copies of T{}, the product taken in size_t), then
\* the body rejects a zero dimension.
Tensor(rows, cols) ==
    LET data == [n \in 1 .. SizeMul(rows, cols) |-> 0]
    IN  IF rows = 0 \/ cols = 0
        THEN [err |-> InvalidArgument, ub |-> FALSE, t |-> <<>>]
        ELSE [err |-> NoError, ub |-> FALSE,
              t |-> << [rows |-> rows, cols |-> cols, data |-> data] >>]

\* T& operator()(size_t i, size_t j): the bounds check, then data[(i * cols) + j].
\* ub: the offset is past the end of the buffer.
atRef(t, i, j) ==
    LET off == SizeAdd(SizeMul(i, t.cols), j)
    IN  IF i >= t.rows \/ j >= t.cols
        THEN [err |-> OutOfRange, ub |-> FALSE, off |-> 0]
        ELSE [err |-> NoError, ub |-> off >= Len(t.data), off |-> off]

\* const T& operator()(size_t i, size_t j) const
at(t, i, j) ==
    LET off == SizeAdd(SizeMul(i, t.cols), j)
    IN  IF i >= t.rows \/ j >= t.cols
        THEN [err |-> OutOfRange, ub |-> FALSE, off |-> 0]
        ELSE [err |-> NoError, ub |-> off >= Len(t.data), off |-> off]

\* bool operator==(const Tensor<T>&) const
equals(a, b) == a.rows = b.rows /\ a.cols = b.cols /\ a.data = b.data

\* bool operator!=(const Tensor<T>&) const
notEquals(a, b) == ~equals(a, b)

\* BinaryOp: std::plus<T>, std::minus<T>
BinaryOp(op, x, y) == IF op = "plus" THEN TAdd(x, y) ELSE TSub(x, y)

\* elementWiseOp with a shape check that rejects only operands differing in
\* both rows and cols.
elementWiseOpMut(this, otherTensor, op) ==
    IF this.rows # otherTensor.rows /\ this.cols # otherTensor.cols
    THEN [err |-> SizeMismatch, ub |-> FALSE, t |-> <<>>]
    ELSE LET result == Tensor(this.rows, this.cols)
         IN  [err |-> NoError, ub |-> FALSE,
              t |-> << [result.t[1] EXCEPT !.data =
                          [k \in 1 .. Len(result.t[1].data) |->
                              IF k <= Len(this.data) /\ k <= Len(otherTensor.data)
                              THEN BinaryOp(op, this.data[k], otherTensor.data[k])
                              ELSE 0]] >>]

\* elementWiseOp(otherTensor, op): the shape check, the result tensor, then
\* std::transform over [data.begin(), data.end()).
elementWiseOp(this, otherTensor, op) ==
    IF this.rows # otherTensor.rows \/ this.cols # otherTensor.cols
    THEN [err |-> SizeMismatch, ub |-> FALSE, t |-> <<>>]
    ELSE LET result == Tensor(this.rows, this.cols)
         IN  IF result.err # NoError THEN result
             ELSE LET n == Len(this.data)
                      m == IF Len(result.t[1].data) < n THEN Len(result.t[1].data) ELSE n
                  IN  [err |-> NoError,
                       ub |-> Len(otherTensor.data) < n \/ Len(result.t[1].data) < n,
                       t |-> << [result.t[1] EXCEPT !.data =
                                   [k \in 1 .. Len(result.t[1].data) |->
                                       IF k <= m /\ k <= Len(otherTensor.data)
                                       THEN BinaryOp(op, this.data[k], otherTensor.data[k])
                                       ELSE 0]] >>]

\* Tensor operator+(const Tensor<T>&&) const
operatorPlus(this, otherTensor) == elementWiseOp(this, otherTensor, "plus")

\* Tensor operator-(const Tensor<T>&&) const
operatorMinus(this, otherTensor) == elementWiseOp(this, otherTensor, "minus")

\* operator*(const T&) whose lambda adds the scalar instead of multiplying by it.
scalarMulMut(this, scalar) ==
    LET result == Tensor(this.rows, this.cols)
    IN  [err |-> NoError, ub |-> FALSE,
         t |-> << [result.t[1] EXCEPT !.data =
                     [k \in 1 .. Len(result.t[1].data) |->
                         IF k <= Len(this.data) THEN TAdd(this.data[k], scalar) ELSE 0]] >>]

\* Tensor operator*(const T& scalar) const
scalarMul(this, scalar) ==
    LET result == Tensor(this.rows, this.cols)
    IN  IF result.err # NoError THEN result
        ELSE [err |-> NoError, ub |-> Len(result.t[1].data) < Len(this.data),
              t |-> << [result.t[1] EXCEPT !.data =
                          [k \in 1 .. Len(result.t[1].data) |->
                              IF k <= Len(this.data) THEN TMul(this.data[k], scalar) ELSE 0]] >>]

\* template<T, U> Tensor<T> operator*(const U& scalar, const Tensor<T>& tensor):
\* tensor * scalar, the scalar converted to T.
reflectedMul(scalar, tensor) == scalarMul(tensor, TCast(scalar))

\* The loops of transpose(): result(j, i) = (*this)(i, j) for i, then j.
\* acc = [err, ub, t]; g is what a read past the buffer yields.
RECURSIVE transposeLoop(_, _, _, _, _)
transposeLoop(this, acc, i, j, g) ==
    IF acc.err # NoError \/ i >= this.rows THEN acc
    ELSE IF j >= this.cols THEN transposeLoop(this, acc, i + 1, 0, g)
    ELSE LET rd == at(this, i, j)
             wr == atRef(acc.t[1], j, i)
         IN  IF rd.err # NoError THEN [err |-> rd.err, ub |-> acc.ub, t |-> <<>>]
             ELSE IF wr.err # NoError THEN [err |-> wr.err, ub |-> acc.ub, t |-> <<>>]
             ELSE LET v == IF rd.ub THEN g ELSE this.data[rd.off + 1]
                      nt == IF wr.ub THEN acc.t[1]
                            ELSE [acc.t[1] EXCEPT !.data[wr.off + 1] = v]
                  IN  transposeLoop(this,
                          [err |-> NoError, ub |-> acc.ub \/ rd.ub \/ wr.ub, t |-> <<nt>>],
                          i, j + 1, g)

\* Tensor transpose() const
transpose(this, g) ==
    LET result == Tensor(this.cols, this.rows)
    IN  IF result.err # NoError THEN result
        ELSE transposeLoop(this, result, 0, 0, g)

\* The innermost loop of operator*: sum += (*this)(i, k) * otherTensor(k, j).
\* s = [err, ub, sum]
RECURSIVE dotLoop(_, _, _, _, _, _, _)
dotLoop(this, otherTensor, i, j, k, s, g) ==
    IF s.err # NoError \/ k >= this.cols THEN s
    ELSE LET ra == at(this, i, k)
             rb == at(otherTensor, k, j)
         IN  IF ra.err # NoError THEN [s EXCEPT !.err = ra.err]
             ELSE IF rb.err # NoError THEN [s EXCEPT !.err = rb.err]
             ELSE LET va == IF ra.ub THEN g ELSE this.data[ra.off + 1]
                      vb == IF rb.ub THEN g ELSE otherTensor.data[rb.off + 1]
                  IN  dotLoop(this, otherTensor, i, j, k + 1,
                          [err |-> NoError, ub |-> s.ub \/ ra.ub \/ rb.ub,
                           sum |-> TAdd(s.sum, TMul(va, vb))], g)

\* The loops over i and j of operator*: result(i, j) = sum.
RECURSIVE mulLoop(_, _, _, _, _, _)
mulLoop(this, otherTensor, acc, i, j, g) ==
    IF acc.err # NoError \/ i >= this.rows THEN acc
    ELSE IF j >= otherTensor.cols THEN mulLoop(this, otherTensor, acc, i + 1, 0, g)
    ELSE LET s == dotLoop(this, otherTensor, i, j, 0,
                          [err |-> NoError, ub |-> FALSE, sum |-> 0], g)
             wr == atRef(acc.t[1], i, j)
         IN  IF s.err # NoError THEN [err |-> s.err, ub |-> acc.ub, t |-> <<>>]
             ELSE IF wr.err # NoError THEN [err |-> wr.err, ub |-> acc.ub, t |-> <<>>]
             ELSE LET nt == IF wr.ub THEN acc.t[1]
                            ELSE [acc.t[1] EXCEPT !.data[wr.off + 1] = s.sum]
                  IN  mulLoop(this, otherTensor,
                          [err |-> NoError, ub |-> acc.ub \/ s.ub \/ wr.ub, t |-> <<nt>>],
                          i, j + 1, g)

\* Tensor operator*(const Tensor<T>& otherTensor) const
matMul(this, otherTensor, g) ==
    IF this.cols # otherTensor.rows
    THEN [err |-> DimensionIncompatible, ub |-> FALSE, t |-> <<>>]
    ELSE LET T1 == this.rows
             T2 == otherTensor.cols
             result == Tensor(T1, T2)
         IN  IF result.err # NoError THEN result
             ELSE mulLoop(this, otherTensor, result, 0, 0, g)

\* void fill(const U& value)
fill(this, value) == [this EXCEPT !.data = [k \in 1 .. Len(this.data) |-> TCast(value)]]

\* A move assignment that replaces the storage and keeps the old shape.
moveAssignMut(this, other) == [rows |-> this.rows, cols |-> this.cols, data |-> other.data]

\* The implicitly defined move assignment: rows, cols and data are replaced.
moveAssign(this, other) == [rows |-> other.rows, cols |-> other.cols, data |-> other.data]

----------------------------------------------------------------------------
\* The library client.

Names == DOMAIN obj
Sources == Names \cup {"tmp"}
Opt(s) == IF s = "tmp" THEN tmp ELSE obj[s]
Dims == 0 .. (IF MaxDim < SizeMod THEN MaxDim ELSE SizeMod - 1)
Indices == 0 .. (IF MaxDim < SizeMod THEN MaxDim ELSE SizeMod - 1)
Bool(b) == IF b THEN 1 ELSE 0

Call(op, err, ub, src, ret) ==
    [op |-> op, err |-> err, ub |-> ub, src |-> src, ret |-> ret]

Init ==
    /\ tmod = 2^TBits
    /\ obj = [n \in {"x"} |-> <<>>]
    /\ tmp = <<>>
    /\ depth = 0
    /\ last = Call("start", NoError, FALSE, <<>>, <<>>)
    /\ alive = TRUE
    /\ pc = "lib"
    /\ lit = <<>>
    /\ out = <<>>

\* The value of a sub-expression: r = [err, ub, t] is what the operator computed.
\* An exception unwinds the expression; undefined behaviour may crash the process.
Yield(op, r, crash, src) ==
    /\ alive' = ~crash
    /\ tmp' = IF crash \/ r.err # NoError THEN <<>> ELSE r.t
    /\ depth' = IF crash \/ r.err # NoError THEN 0 ELSE depth + 1
    /\ last' = Call(op, IF crash THEN Crash ELSE r.err, r.ub, src, <<>>)
    /\ UNCHANGED <<tmod, obj, pc, lit, out>>

\* No expression is under evaluation: the next statement may start.
Idle == pc = "lib" /\ alive /\ tmp = <<>>
\* The temporary may be an operand of a further sub-expression.
Nest == pc = "lib" /\ alive /\ tmp # <<>> /\ depth < MaxDepth

\* Tensor<T> dst(rows, cols);   or, for dst = "tmp", the temporary Tensor<T>(rows, cols)
Construct(dst, rows, cols) ==
    /\ Idle
    /\ SizeMul(rows, cols) <= MaxLen
    /\ LET r == Tensor(rows, cols)
       IN  /\ IF dst = "tmp"
              THEN /\ tmp' = r.t
                   /\ depth' = IF r.err = NoError THEN 1 ELSE 0
                   /\ obj' = obj
              ELSE /\ obj' = IF r.err = NoError THEN [obj EXCEPT ![dst] = r.t] ELSE obj
                   /\ tmp' = <<>>
                   /\ depth' = 0
           /\ last' = Call("construct", r.err, FALSE, <<dst>>, <<>>)
    /\ UNCHANGED <<tmod, alive, pc, lit, out>>

\* T v = n(i, j);
Get(n, i, j) ==
    /\ Idle
    /\ obj[n] # <<>>
    /\ LET t == obj[n][1]
           r == at(t, i, j)
       IN  \E g \in TVals, crash \in BOOLEAN :
              /\ r.ub \/ (g = 0 /\ ~crash)
              /\ alive' = ~crash
              /\ last' = Call("get", IF crash THEN Crash ELSE r.err, r.ub, <<n>>,
                              IF crash \/ r.err # NoError THEN <<>>
                              ELSE IF r.ub THEN <<g>> ELSE <<t.data[r.off + 1]>>)
    /\ UNCHANGED <<tmod, obj, tmp, depth, pc, lit, out>>

\* n(i, j) = v;
Set(n, i, j, v) ==
    /\ Idle
    /\ obj[n] # <<>>
    /\ LET t == obj[n][1]
           r == atRef(t, i, j)
       IN  \E crash \in BOOLEAN :
              /\ r.ub \/ ~crash
              /\ alive' = ~crash
              /\ obj' = IF crash \/ r.err # NoError \/ r.ub THEN obj
                        ELSE [obj EXCEPT ![n] = << [t EXCEPT !.data[r.off + 1] = v] >>]
              /\ last' = Call("set", IF crash THEN Crash ELSE r.err, r.ub, <<n>>, <<>>)
    /\ UNCHANGED <<tmod, tmp, depth, pc, lit, out>>

\* n.fill(value);
Fill(n, value) ==
    /\ Idle
    /\ obj[n] # <<>>
    /\ obj' = [obj EXCEPT ![n] = << fill(obj[n][1], value) >>]
    /\ last' = Call("fill", NoError, FALSE, <<n>>, <<>>)
    /\ UNCHANGED <<tmod, tmp, depth, alive, pc, lit, out>>

\* n * scalar
ScalarMul(n, scalar) ==
    /\ Idle
    /\ obj[n] # <<>>
    /\ Yield("scalarMul", scalarMul(obj[n][1], scalar), FALSE, <<n>>)

\* scalar * n
ReflectedMul(scalar, n) ==
    /\ Idle
    /\ obj[n] # <<>>
    /\ Yield("reflectedMul", reflectedMul(scalar, obj[n][1]), FALSE, <<n>>)

\* n.transpose()
Transpose(n) ==
    /\ Idle
    /\ obj[n] # <<>>
    /\ \E g \in TVals, crash \in BOOLEAN :
          LET r == transpose(obj[n][1], g)
          IN  /\ r.ub \/ (g = 0 /\ ~crash)
              /\ Yield("transpose", r, crash, <<n>>)

\* n + <temporary>
Add(n) ==
    /\ Nest
    /\ obj[n] # <<>>
    /\ Yield("plus", operatorPlus(obj[n][1], tmp[1]), FALSE, <<n, "tmp">>)

\* n - <temporary>
Sub(n) ==
    /\ Nest
    /\ obj[n] # <<>>
    /\ Yield("minus", operatorMinus(obj[n][1], tmp[1]), FALSE, <<n, "tmp">>)

\* a * b, one of them the temporary, or both the same named tensor
MatMul(a, b) ==
    /\ IF a = "tmp" \/ b = "tmp" THEN Nest /\ a # b ELSE Idle
    /\ Opt(a) # <<>> /\ Opt(b) # <<>>
    /\ SizeMul(Opt(a)[1].rows, Opt(b)[1].cols) <= MaxLen
    /\ \E g \in TVals, crash \in BOOLEAN :
          LET r == matMul(Opt(a)[1], Opt(b)[1], g)
          IN  /\ r.ub \/ (g = 0 /\ ~crash)
              /\ Yield("matMul", r, crash, <<a, b>>)

\* bool e = (n == <temporary>);   bool e = (n != <temporary>);
Compare(n, neg) ==
    /\ pc = "lib" /\ alive /\ tmp # <<>>
    /\ obj[n] # <<>>
    /\ last' = Call(IF neg THEN "notEquals" ELSE "equals", NoError, FALSE, <<n, "tmp">>,
                    << Bool(IF neg THEN notEquals(obj[n][1], tmp[1])
                            ELSE equals(obj[n][1], tmp[1])) >>)
    /\ tmp' = <<>>
    /\ depth' = 0
    /\ UNCHANGED <<tmod, obj, alive, pc, lit, out>>

\* n = <temporary>;   (Tensor<T> n = <temporary>; when n is not yet constructed)
Assign(n) ==
    /\ pc = "lib" /\ alive /\ tmp # <<>>
    /\ obj' = [obj EXCEPT ![n] = IF obj[n] = <<>> THEN tmp
                                 ELSE << moveAssign(obj[n][1], tmp[1]) >>]
    /\ last' = Call("assign", NoError, FALSE, <<n, last.op>>, <<>>)
    /\ tmp' = <<>>
    /\ depth' = 0
    /\ UNCHANGED <<tmod, alive, pc, lit, out>>

\* <temporary>;   the value of the expression is not used
Discard ==
    /\ pc = "lib" /\ alive /\ tmp # <<>>
    /\ last' = Call("discard", NoError, FALSE, <<"tmp">>, <<>>)
    /\ tmp' = <<>>
    /\ depth' = 0
    /\ UNCHANGED <<tmod, obj, alive, pc, lit, out>>

Next ==
    \/ \E dst \in Sources, rows \in Dims, cols \in Dims : Construct(dst, rows, cols)
    \/ \E n \in Names, i \in Indices, j \in Indices : Get(n, i, j)
    \/ \E n \in Names, i \in Indices, j \in Indices, v \in TVals : Set(n, i, j, v)
    \/ \E n \in Names, value \in 0 .. tmod : Fill(n, value)
    \/ \E n \in Names, scalar \in TVals : ScalarMul(n, scalar)
    \/ \E n \in Names, scalar \in 0 .. tmod : ReflectedMul(scalar, n)
    \/ \E n \in Names : Transpose(n)
    \/ \E n \in Names : Add(n)
    \/ \E n \in Names : Sub(n)
    \/ \E a \in Sources, b \in Sources : MatMul(a, b)
    \/ \E n \in Names, neg \in BOOLEAN : Compare(n, neg)
    \/ \E n \in Names : Assign(n)
    \/ Discard

Spec == Init /\ [][Next]_vars

----------------------------------------------------------------------------
\* The demonstration program, main() of test1.cpp, with T = int.  Its literals
\* are held in lit; TestLits are the ones the file has.  The other values
\* Init draws give the neighbouring programs, among them one whose last
\* multiplication is defined, so that every line of main() is run.

TestLits == [fillA |-> TestFillA, scaleA |-> TestScaleA, fillB |-> TestFillB,
             scaleB |-> TestScaleB, shapeA |-> <<1, 2>>, shapeB |-> <<2, 1>>]

InitTest ==
    /\ tmod = 2^IntBits
    /\ obj = [n \in {"A", "B", "C"} |-> <<>>]
    /\ tmp = <<>>
    /\ depth = 0
    /\ last = Call("start", NoError, FALSE, <<>>, <<>>)
    /\ alive = TRUE
    /\ pc = "L5"
    /\ lit \in [fillA : {1, TestFillA}, scaleA : {1, TestScaleA}, fillB : {1, TestFillB},
                scaleB : {1, TestScaleB}, shapeA : {<<1, 2>>}, shapeB : {<<2, 1>>, <<1, 2>>}]
    /\ out = <<>>

\* void print() const: one line per row, the elements of the row in column order
\* (the separating spaces and the line ends are not modelled).
printRows(this) ==
    [i \in 1 .. this.rows |-> [j \in 1 .. this.cols |-> this.data[(i - 1) * this.cols + j]]]

\* A statement of main() that constructs or assigns the tensor n from r = [err, ub, t].
\* No exception is caught: one that is thrown ends the process (std::terminate).
Stmt(line, next, op, n, r) ==
    /\ pc = line /\ alive
    /\ \E crash \in BOOLEAN :
          /\ r.ub \/ ~crash
          /\ LET failed == crash \/ r.err # NoError
             IN  /\ alive' = ~failed
                 /\ pc' = IF failed THEN line ELSE next
                 /\ obj' = IF failed THEN obj
                           ELSE [obj EXCEPT ![n] = IF obj[n] = <<>> THEN r.t
                                                   ELSE << moveAssign(obj[n][1], r.t[1]) >>]
                 /\ last' = Call(op, IF crash THEN Crash ELSE r.err, r.ub, <<n>>, <<>>)
    /\ UNCHANGED <<tmod, tmp, depth, lit, out>>

\* n.fill(value);
FillStmt(line, next, n, value) ==
    /\ pc = line /\ alive
    /\ pc' = next
    /\ obj' = [obj EXCEPT ![n] = << fill(obj[n][1], value) >>]
    /\ last' = Call("fill", NoError, FALSE, <<n>>, <<>>)
    /\ UNCHANGED <<tmod, tmp, depth, alive, lit, out>>

\* n.print();
PrintStmt(line, next, n) ==
    /\ pc = line /\ alive
    /\ pc' = next
    /\ out' = out \o printRows(obj[n][1])
    /\ last' = Call("print", NoError, FALSE, <<n>>, <<>>)
    /\ UNCHANGED <<tmod, obj, tmp, depth, alive, lit>>

L5 == Stmt("L5", "L6", "construct", "A", Tensor(lit.shapeA[1], lit.shapeA[2]))
L6 == FillStmt("L6", "L7", "A", lit.fillA)
L7 == PrintStmt("L7", "L8", "A")
L8 == Stmt("L8", "L9", "scalarMul", "A", scalarMul(obj["A"][1], lit.scaleA))
L9 == PrintStmt("L9", "L11", "A")
L11 == Stmt("L11", "L12", "construct", "B", Tensor(lit.shapeB[1], lit.shapeB[2]))
L12 == FillStmt("L12", "L13", "B", lit.fillB)
L13 == PrintStmt("L13", "L14", "B")
L14 == Stmt("L14", "L15", "reflectedMul", "B", reflectedMul(lit.scaleB, obj["B"][1]))
L15 == PrintStmt("L15", "L16", "B")
L16 == Stmt("L16", "L17", "transpose", "B", transpose(obj["B"][1], 0))
L17 == PrintStmt("L17", "L19", "B")
L19 == Stmt("L19", "L20", "matMul", "C", matMul(obj["A"][1], obj["B"][1], 0))
L20 == PrintStmt("L20", "end", "C")

NextTest ==
    \/ L5 \/ L6 \/ L7 \/ L8 \/ L9
    \/ L11 \/ L12 \/ L13 \/ L14 \/ L15 \/ L16 \/ L17
    \/ L19 \/ L20

SpecTest == InitTest /\ [][NextTest]_vars

----------------------------------------------------------------------------
\* What the specification says of a tensor, stated without the code's
\* arithmetic: products and sums below are those of the integers.

\* The invariants of the data model.
WellFormed(t) == t.rows >= 1 /\ t.cols >= 1 /\ Len(t.data) = t.rows * t.cols

\* Element (i, j) of a well-formed tensor (row-major layout).
Elem(t, i, j) == t.data[i * t.cols + j + 1]

\* The tensors that exist: the named ones and the temporary.
Tensors ==
    {obj[n][1] : n \in {m \in Names : obj[m] # <<>>}}
        \cup (IF tmp # <<>> THEN {tmp[1]} ELSE {})

\* The transpose of a well-formed tensor.
Transposed(t) ==
    [rows |-> t.cols, cols |-> t.rows,
     data |-> [n \in 1 .. t.rows * t.cols |-> Elem(t, (n - 1) % t.rows, (n - 1) \div t.rows)]]

\* The sum over k < n of a(i, k) * b(k, j).
RECURSIVE Dot(_, _, _, _, _)
Dot(a, b, i, j, n) ==
    IF n = 0 THEN 0 ELSE Dot(a, b, i, j, n - 1) + Elem(a, i, n - 1) * Elem(b, n - 1, j)

\* The algebraic product of well-formed a and b with a.cols = b.rows.
Product(a, b) ==
    [rows |-> a.rows, cols |-> b.cols,
     data |-> [n \in 1 .. a.rows * b.cols |->
                 Dot(a, b, (n - 1) \div b.cols, (n - 1) % b.cols, a.cols) % tmod]]

\* The object a construction made: the named tensor or the temporary.
Made(dst) == (IF dst = "tmp" THEN tmp' ELSE obj'[dst])

----------------------------------------------------------------------------
\* C1: Construct(rows, cols) fails with InvalidArgument and yields no instance
\* whenever rows = 0 or cols = 0; for every rows >= 1 and cols >= 1 it succeeds
\* and yields a tensor of that shape whose rows * cols elements are all zero.
C1_Construct ==
    [][\A dst \in Sources, rows \in Dims, cols \in Dims :
          Construct(dst, rows, cols) =>
             IF rows = 0 \/ cols = 0
             THEN /\ last'.err = InvalidArgument
                  /\ obj' = obj
                  /\ tmp' = <<>>
             ELSE /\ last'.err = NoError
                  /\ Made(dst) # <<>>
                  /\ Made(dst)[1].rows = rows
                  /\ Made(dst)[1].cols = cols
                  /\ Len(Made(dst)[1].data) = rows * cols
                  /\ \A k \in 1 .. Len(Made(dst)[1].data) : Made(dst)[1].data[k] = 0]_vars

\* C2: after any sequence of operations every existing tensor, every returned
\* result included, has rows >= 1, cols >= 1 and data.length = rows * cols.
C2_ShapeInvariant == \A t \in Tensors : WellFormed(t)

\* C3: multiply(a, b) fails with DimensionIncompatible exactly when
\* a.cols # b.rows; otherwise it returns a new tensor of shape (a.rows, b.cols)
\* whose cell (i, j) is the sum over k of a(i, k) * b(k, j), with no operand
\* modified and no internal index error.  (Stated for operands that satisfy the
\* invariants of the data model.)
C3_Multiply ==
    [][\A a \in Sources, b \in Sources :
          (MatMul(a, b) /\ WellFormed(Opt(a)[1]) /\ WellFormed(Opt(b)[1])) =>
             /\ obj' = obj
             /\ IF Opt(a)[1].cols # Opt(b)[1].rows
                THEN last'.err = DimensionIncompatible /\ tmp' = <<>>
                ELSE /\ last'.err = NoError
                     /\ ~last'.ub
                     /\ tmp' = << Product(Opt(a)[1], Opt(b)[1]) >>]_vars

\* C4: the sequence of test1.cpp, in the order main() performs it (A := 1x2
\* filled with 5; A := A * 3; B := 2x1 filled with 3; B := 10 * B;
\* B := B.transpose(); C := A * B), raises no error at any step and ends with
\* C of shape 1x1 holding 900.
C4_Scenario2 ==
    (pc # "lib" /\ lit = TestLits) =>
        /\ alive
        /\ last.err = NoError
        /\ pc = "end" => obj["C"] = << [rows |-> 1, cols |-> 1, data |-> <<900>>] >>

\* C5: for any tensor t, get(i, j) and set(i, j, v) fail with OutOfRange
\* exactly when i >= rows or j >= cols, a failing set leaves t unchanged, and
\* for in-bounds (i, j) they never fail.
C5_Indexing ==
    [][\A n \in Names, i \in Indices, j \in Indices :
          /\ (last'.op = "get" /\ Get(n, i, j)) =>
                IF i >= obj[n][1].rows \/ j >= obj[n][1].cols
                THEN last'.err = OutOfRange
                ELSE last'.err = NoError /\ ~last'.ub
          /\ \A v \in TVals :
                (last'.op = "set" /\ Set(n, i, j, v)) =>
                   IF i >= obj[n][1].rows \/ j >= obj[n][1].cols
                   THEN last'.err = OutOfRange /\ obj' = obj
                   ELSE last'.err = NoError /\ ~last'.ub]_vars

\* C5 for the tensors that satisfy the invariants of the data model: as above,
\* and an in-bounds get returns, an in-bounds set replaces, element (i, j) alone.
C5_IndexingWellFormed ==
    [][\A n \in Names, i \in Indices, j \in Indices :
          /\ (last'.op = "get" /\ Get(n, i, j) /\ WellFormed(obj[n][1])) =>
                IF i >= obj[n][1].rows \/ j >= obj[n][1].cols
                THEN last'.err = OutOfRange
                ELSE /\ last'.err = NoError /\ ~last'.ub
                     /\ last'.ret = << Elem(obj[n][1], i, j) >>
          /\ \A v \in TVals :
                (last'.op = "set" /\ Set(n, i, j, v) /\ WellFormed(obj[n][1])) =>
                   IF i >= obj[n][1].rows \/ j >= obj[n][1].cols
                   THEN last'.err = OutOfRange /\ obj' = obj
                   ELSE /\ last'.err = NoError /\ ~last'.ub
                        /\ obj'[n][1] = [obj[n][1] EXCEPT !.data[i * obj[n][1].cols + j + 1] = v]]_vars

\* What an element-wise operation of a and the temporary b must yield.
ElementWisePost(a, b, op) ==
    /\ obj' = obj
    /\ ~last'.ub
    /\ IF a.rows # b.rows \/ a.cols # b.cols
       THEN last'.err = SizeMismatch /\ tmp' = <<>>
       ELSE /\ last'.err = NoError
            /\ tmp' # <<>>
            /\ tmp'[1].rows = a.rows /\ tmp'[1].cols = a.cols
            /\ Len(tmp'[1].data) = Len(a.data)
            /\ \A k \in 1 .. Len(a.data) :
                  tmp'[1].data[k] = (IF op = "plus" THEN a.data[k] + b.data[k]
                                     ELSE a.data[k] - b.data[k]) % tmod
            /\ WellFormed(a) =>
                  \A i \in 0 .. a.rows - 1, j \in 0 .. a.cols - 1 :
                     Elem(tmp'[1], i, j) = (IF op = "plus" THEN Elem(a, i, j) + Elem(b, i, j)
                                            ELSE Elem(a, i, j) - Elem(b, i, j)) % tmod

\* C6: add(a, b) and subtract(a, b) fail with SizeMismatch, producing no
\* result, exactly when a and b differ in rows or in cols; otherwise they return
\* a new tensor of the same shape whose element (i, j) is a(i,j) + b(i,j),
\* respectively a(i,j) - b(i,j), in the arithmetic of T, and leave the operands
\* unmodified.
C6_ElementWise ==
    [][\A n \in Names :
          /\ (last'.op = "plus" /\ Add(n)) => ElementWisePost(obj[n][1], tmp[1], "plus")
          /\ (last'.op = "minus" /\ Sub(n)) => ElementWisePost(obj[n][1], tmp[1], "minus")]_vars

\* C6 is reached: a sum of two 2x2 tensors whose elements differ.
C6_Witness ==
    /\ last.op = "plus" /\ last.err = NoError
    /\ tmp # <<>> /\ tmp[1].rows = 2 /\ tmp[1].cols = 2
    /\ tmp[1].data = <<3, 2, 1, 0>>
    /\ obj["x"][1].data = <<1, 2, 3, 0>>

\* C7: for every tensor t, transposed(t) returns a new tensor of shape
\* (t.cols, t.rows) with result(j, i) = t(i, j), never fails and leaves t
\* unchanged, and transposed(transposed(t)) equals t.
C7_Transpose ==
    [][\A n \in Names :
          (last'.op = "transpose" /\ Transpose(n)) =>
             /\ last'.err = NoError /\ ~last'.ub
             /\ obj' = obj
             /\ tmp' = << Transposed(obj[n][1]) >>
             /\ LET back == transpose(tmp'[1], 0)
                IN  back.err = NoError /\ ~back.ub /\ equals(back.t[1], obj[n][1])]_vars

\* C7 for the tensors that satisfy the invariants of the data model.
C7_TransposeWellFormed ==
    [][\A n \in Names :
          (last'.op = "transpose" /\ Transpose(n) /\ WellFormed(obj[n][1])) =>
             /\ last'.err = NoError /\ ~last'.ub
             /\ obj' = obj
             /\ tmp' = << Transposed(obj[n][1]) >>
             /\ LET back == transpose(tmp'[1], 0)
                IN  back.err = NoError /\ ~back.ub /\ equals(back.t[1], obj[n][1])]_vars

ScalePost(t, k) ==
    /\ obj' = obj
    /\ last'.err = NoError /\ ~last'.ub
    /\ tmp' # <<>>
    /\ tmp'[1].rows = t.rows /\ tmp'[1].cols = t.cols
    /\ Len(tmp'[1].data) = Len(t.data)
    /\ \A n \in 1 .. Len(t.data) : tmp'[1].data[n] = (t.data[n] * k) % tmod
    /\ WellFormed(t) =>
          \A i \in 0 .. t.rows - 1, j \in 0 .. t.cols - 1 :
             Elem(tmp'[1], i, j) = (Elem(t, i, j) * k) % tmod

\* C9: for every tensor t and scalar k, t * k and k * t never fail, leave t
\* unchanged, and return equal tensors of t's shape in which every element
\* (i, j) is t(i,j) * k in the arithmetic of T.
C9_Scale ==
    [][\A n \in Names, scalar \in 0 .. tmod :
          /\ (last'.op = "scalarMul" /\ ScalarMul(n, scalar)) => ScalePost(obj[n][1], scalar)
          /\ (last'.op = "reflectedMul" /\ ReflectedMul(scalar, n)) =>
                /\ ScalePost(obj[n][1], scalar)
                /\ equals(tmp'[1], scalarMul(obj[n][1], TCast(scalar)).t[1])]_vars

\* C9 is reached: the reflected form has scaled a 2x2 tensor of differing elements.
C9_Witness ==
    /\ last.op = "reflectedMul" /\ last.err = NoError
    /\ tmp # <<>> /\ tmp[1].rows = 2 /\ tmp[1].cols = 2
    /\ tmp[1].data = <<3, 2, 1, 0>>
    /\ obj["x"][1].data = <<1, 2, 3, 0>>

\* C10: a successful construction allocates a buffer of exactly the true
\* product rows * cols elements, so every index pair that passes the bounds
\* check addresses an offset inside the buffer.
C10_BufferHoldsProduct ==
    (last.op = "construct" /\ last.err = NoError) =>
        LET t == Opt(last.src[1])[1]
        IN  /\ Len(t.data) = t.rows * t.cols
            /\ \A i \in 0 .. SizeMod - 1, j \in 0 .. SizeMod - 1 :
                  at(t, i, j).err = NoError => ~at(t, i, j).ub

====
